---- MODULE Spec2Model ----
(***************************************************************************)
(* A model of parsec.py: the ParsecQuery client of the CMD web form.       *)
(*                                                                         *)
(* Python values are records of one shape, so that any two of them can be  *)
(* compared: k is the kind ("num", "nan", "str", "list"), n/d a reduced    *)
(* rational (the floats of the code are modelled exactly), s a string and  *)
(* l a list of strings (the value of a multi-valued hidden field).         *)
(* A physical parameter (t, lgt, Z, MeH) is [shape, v]: shape "none" for   *)
(* None, "scalar" for a bare number (v has one element) and "array" for a  *)
(* numpy array (v holds its elements).                                     *)
(***************************************************************************)
EXTENDS Integers, Sequences, FiniteSets, TLC

VARIABLES website, query_isochrones, args_default, inp, pc, posts, gets, ret

vars == <<website, query_isochrones, args_default, inp, pc, posts, gets, ret>>

---------------------------------------------------------------------------
(* Bounds of the model *)

\* longest array drawn for t, lgt, Z, MeH
MaxLen == 2
\* most lines in a fetched artifact
MaxLines == 3
\* most text nodes under the errorwarning paragraph / the form
MaxNodes == 1

---------------------------------------------------------------------------
(* Python values *)

Abs(i) == IF i < 0 THEN -i ELSE i

RECURSIVE Gcd(_, _)
Gcd(a, b) == IF b = 0 THEN a ELSE Gcd(b, a % b)

RECURSIVE Pow(_, _)
Pow(b, e) == IF e = 0 THEN 1 ELSE b * Pow(b, e - 1)

Val(kind, num, den, str, lst) == [k |-> kind, n |-> num, d |-> den, s |-> str, l |-> lst]

NaN == Val("nan", 0, 0, "", <<>>)

Rat(num, den) ==
    IF den = 0 THEN NaN
    ELSE LET g == Gcd(Abs(num), Abs(den))
             sg == IF den < 0 THEN -1 ELSE 1
         IN  Val("num", sg * (num \div g), sg * (den \div g), "", <<>>)

Num(i) == Rat(i, 1)

Str(str) == Val("str", 0, 1, str, <<>>)

Lst(lst) == Val("list", 0, 1, "", lst)

IsNaN(x) == x.k = "nan"

\* float arithmetic; NaN propagates
Sub(x, y) == IF IsNaN(x) \/ IsNaN(y) THEN NaN ELSE Rat(x.n * y.d - y.n * x.d, x.d * y.d)

Add(x, y) == IF IsNaN(x) \/ IsNaN(y) THEN NaN ELSE Rat(x.n * y.d + y.n * x.d, x.d * y.d)

Mul(x, y) == IF IsNaN(x) \/ IsNaN(y) THEN NaN ELSE Rat(x.n * y.n, x.d * y.d)

\* 10**x for an integral x
Pow10(x) == IF x.n >= 0 THEN Rat(Pow(10, x.n), 1) ELSE Rat(1, Pow(10, -x.n))

\* np.log10(x) for x an integral power of ten
Log10(x) ==
    IF x.d = 1 THEN Num(CHOOSE e \in 0..12 : Pow(10, e) = x.n)
    ELSE Num(-(CHOOSE e \in 0..12 : Pow(10, e) = x.d))

---------------------------------------------------------------------------
(* Physical parameters *)

None == [shape |-> "none", v |-> <<>>]

Scalar(x) == [shape |-> "scalar", v |-> <<x>>]

Array(xs) == [shape |-> "array", v |-> xs]

IsNone(x) == x.shape = "none"

\* isscalar(x): None and bare numbers are scalar, an array of any length is not
isscalar(x) == IF x.shape = "none" THEN TRUE ELSE x.shape = "scalar"

\* the number held by a parameter that is a bare number
Value(x) == x.v[1]

First(x) == x.v[1]

Last(x) == x.v[Len(x.v)]

\* np.log10(x), elementwise as numpy broadcasts it
Log10All(x) == [shape |-> x.shape, v |-> [n \in 1..Len(x.v) |-> Log10(x.v[n])]]

\* zsun * 10**x, elementwise
Scaled(zsun, x) == [shape |-> x.shape, v |-> [n \in 1..Len(x.v) |-> Mul(zsun, Pow10(x.v[n]))]]

\* np.diff(x)
Diff(xs) == [i \in 1..(Len(xs) - 1) |-> Sub(xs[i + 1], xs[i])]

RECURSIVE Sum(_)
Sum(xs) == IF Len(xs) = 0 THEN Num(0) ELSE Add(xs[1], Sum(Tail(xs)))

\* ndarray.mean(): the mean of an empty array is nan (0/0)
Mean(xs) ==
    LET total == Sum(xs)
    IN  IF IsNaN(total) THEN NaN ELSE Rat(total.n, total.d * Len(xs))

DiffMean(x) == Mean(Diff(x.v))

---------------------------------------------------------------------------
(* Argument mappings (Python dicts with string keys) *)

Empty == [key \in {} |-> NaN]

\* dict.update(b) on a, also {**a, **b}: b wins on every key collision
Update(a, b) ==
    [key \in (DOMAIN a) \cup (DOMAIN b) |-> IF key \in DOMAIN b THEN b[key] ELSE a[key]]

Has(a, key) == key \in DOMAIN a

---------------------------------------------------------------------------
(* Results of a translation step: err is "" or the exception raised *)

Ok(fields) == [err |-> "", f |-> fields]

Raise(exc) == [err |-> exc, f |-> Empty]

MissingAge == "ValueError: Must provide one of 't' or 'lgt'!"

MissingMet == "ValueError: Must provide one of 'Z' or 'MeH'!"

Conflict == "ValueError: At most one array is allowed for 't' and 'Z'!"

KeyErrorKind == "KeyError: 'isoc_kind'"

AttributeErrorKind == "AttributeError: startswith"

\* args.update(**fields) inside a translator: the computed fields are written
\* over whatever the caller passed in **args
args_update_overrides_win(args, fields) == Update(fields, args)

args_update(args, fields) == Update(args, fields)

---------------------------------------------------------------------------
(* _query_isochrones_cmd3 *)

\* a translator that also fills the fields of the other age form
Cmd3Age_bothforms(t, lgt) ==
    IF ~IsNone(t)
    THEN Ok([isoc_isagelog |-> Num(0), isoc_agelow |-> First(t), isoc_dage |-> Num(0),
             isoc_lagelow |-> First(t), isoc_dlage |-> Num(0)])
    ELSE IF ~IsNone(lgt)
    THEN Ok([isoc_isagelog |-> Num(1), isoc_lagelow |-> First(lgt), isoc_dlage |-> Num(0),
             isoc_agelow |-> First(lgt), isoc_dage |-> Num(0)])
    ELSE Raise(MissingAge)

Cmd3Age(t, lgt) ==
    IF ~IsNone(t)
    THEN IF isscalar(t)
         THEN Ok([isoc_isagelog |-> Num(0), isoc_agelow |-> Value(t), isoc_dage |-> Num(0)])
         ELSE Ok([isoc_isagelog |-> Num(0), isoc_agelow |-> First(t),
                  isoc_ageupp |-> Last(t), isoc_dage |-> DiffMean(t)])
    ELSE IF ~IsNone(lgt)
    THEN IF isscalar(lgt)
         THEN Ok([isoc_isagelog |-> Num(1), isoc_lagelow |-> Value(lgt), isoc_dlage |-> Num(0)])
         ELSE Ok([isoc_isagelog |-> Num(1), isoc_lagelow |-> First(lgt),
                  isoc_lageupp |-> Last(lgt), isoc_dlage |-> DiffMean(lgt)])
    ELSE Raise(MissingAge)

\* a translator that lets a call without metallicity through
Cmd3Met_noraise(Z, MeH) ==
    IF ~IsNone(Z) THEN Ok([isoc_ismetlog |-> Num(0), isoc_zlow |-> First(Z), isoc_dz |-> Num(0)])
    ELSE IF ~IsNone(MeH)
    THEN Ok([isoc_ismetlog |-> Num(1), isoc_metlow |-> First(MeH), isoc_dmet |-> Num(0)])
    ELSE Ok(Empty)

Cmd3Met(Z, MeH) ==
    IF ~IsNone(Z)
    THEN IF isscalar(Z)
         THEN Ok([isoc_ismetlog |-> Num(0), isoc_zlow |-> Value(Z), isoc_dz |-> Num(0)])
         ELSE Ok([isoc_ismetlog |-> Num(0), isoc_zlow |-> First(Z),
                  isoc_zupp |-> Last(Z), isoc_dz |-> DiffMean(Z)])
    ELSE IF ~IsNone(MeH)
    THEN IF isscalar(MeH)
         THEN Ok([isoc_ismetlog |-> Num(1), isoc_metlow |-> Value(MeH), isoc_dmet |-> Num(0)])
         ELSE Ok([isoc_ismetlog |-> Num(1), isoc_metlow |-> First(MeH),
                  isoc_metupp |-> Last(MeH), isoc_dmet |-> DiffMean(MeH)])
    ELSE Raise(MissingMet)

\* the **args handed to self.query, or the exception raised before it
Cmd3Args(i) ==
    LET age == Cmd3Age(i.t, i.lgt)
        met == Cmd3Met(i.Z, i.MeH)
    IN  IF age.err # "" THEN Raise(age.err)
        ELSE IF met.err # "" THEN Raise(met.err)
        ELSE Ok(args_update(args_update(args_update(i.args, age.f), met.f),
                            [extinction_av |-> i.extinction_av]))

---------------------------------------------------------------------------
(* _query_isochrones_cmd2 *)

\* lines 326-334: the pair (t, lgt) after the age normalisation
Cmd2Age(t, lgt) ==
    IF IsNone(t)
    THEN IF IsNone(lgt) THEN [err |-> MissingAge, t |-> t, lgt |-> lgt]
         ELSE IF isscalar(lgt) THEN [err |-> "", t |-> Scalar(Pow10(Value(lgt))), lgt |-> None]
         ELSE [err |-> "", t |-> t, lgt |-> lgt]
    ELSE IF ~isscalar(t) THEN [err |-> "", t |-> None, lgt |-> Log10All(t)]
    ELSE [err |-> "", t |-> t, lgt |-> lgt]

StartsWith(str, prefix) ==
    /\ Len(str) >= Len(prefix)
    /\ SubSeq(str, 1, Len(prefix)) = prefix

Zsun(isoc_kind) == IF StartsWith(isoc_kind, "parsec") THEN Rat(152, 10000) ELSE Rat(19, 1000)

\* args.get("isoc_kind", self.args_default["isoc_kind"]): Python evaluates the
\* fallback self.args_default["isoc_kind"] before the call, whatever args holds
IsocKind(args, default) ==
    IF ~Has(default, "isoc_kind") THEN [err |-> KeyErrorKind, kind |-> NaN]
    ELSE IF Has(args, "isoc_kind") THEN [err |-> "", kind |-> args["isoc_kind"]]
    ELSE [err |-> "", kind |-> default["isoc_kind"]]

\* lines 336-347: Z after the metallicity normalisation
Cmd2Met(Z, MeH, args, default) ==
    IF IsNone(Z)
    THEN IF IsNone(MeH) THEN [err |-> MissingMet, Z |-> Z]
         ELSE LET got == IsocKind(args, default)
              IN  IF got.err # "" THEN [err |-> got.err, Z |-> Z]
                  ELSE IF got.kind.k # "str" THEN [err |-> AttributeErrorKind, Z |-> Z]
                  ELSE [err |-> "", Z |-> Scaled(Zsun(got.kind.s), MeH)]
    ELSE [err |-> "", Z |-> Z]

\* lines 351-369: the fields of the three emission cases
Cmd2Fields(t, lgt, Z) ==
    IF ~IsNone(t)
    THEN IF isscalar(Z)
         THEN [isoc_val |-> Str("0"), isoc_age |-> Value(t), isoc_zeta |-> Value(Z)]
         ELSE [isoc_val |-> Str("2"), isoc_age0 |-> Value(t), isoc_z0 |-> First(Z),
               isoc_z1 |-> Last(Z), isoc_dz |-> DiffMean(Z)]
    ELSE [isoc_val |-> Str("1"), isoc_zeta0 |-> Value(Z), isoc_lage0 |-> First(lgt),
          isoc_lage1 |-> Last(lgt), isoc_dlage |-> DiffMean(lgt)]

Cmd2Args(i, default) ==
    LET age == Cmd2Age(i.t, i.lgt)
        met == Cmd2Met(i.Z, i.MeH, i.args, default)
    IN  IF age.err # "" THEN Raise(age.err)
        ELSE IF met.err # "" THEN Raise(met.err)
        ELSE IF ~isscalar(age.lgt) /\ ~isscalar(met.Z) THEN Raise(Conflict)
        ELSE Ok(args_update(args_update(i.args, Cmd2Fields(age.t, age.lgt, met.Z)),
                            [extinction_av |-> i.extinction_av]))

---------------------------------------------------------------------------
(* Strings *)

EndsWith(str, suffix) ==
    /\ Len(str) >= Len(suffix)
    /\ SubSeq(str, Len(str) - Len(suffix) + 1, Len(str)) = suffix

Contains(str, sub) ==
    \E p \in 1..(Len(str) - Len(sub) + 1) : SubSeq(str, p, p + Len(sub) - 1) = sub

Whitespace == {" ", "\t"}

\* str.split() with no separator: the maximal runs of non-whitespace
RECURSIVE SplitFrom(_, _, _)
SplitFrom(str, p, word) ==
    IF p > Len(str) THEN (IF word = "" THEN <<>> ELSE <<word>>)
    ELSE LET c == SubSeq(str, p, p)
         IN  IF c \in Whitespace
             THEN (IF word = "" THEN <<>> ELSE <<word>>) \o SplitFrom(str, p + 1, "")
             ELSE SplitFrom(str, p + 1, word \o c)

Split(str) == SplitFrom(str, 1, "")

\* sep.join(parts)
RECURSIVE Join(_, _)
Join(sep, parts) ==
    IF Len(parts) = 0 THEN ""
    ELSE IF Len(parts) = 1 THEN parts[1]
    ELSE parts[1] \o sep \o Join(sep, Tail(parts))

\* str.split(sep) for a one-character sep: the pieces between the separators
RECURSIVE SplitOnFrom(_, _, _, _)
SplitOnFrom(str, sep, p, piece) ==
    IF p > Len(str) THEN <<piece>>
    ELSE IF SubSeq(str, p, p) = sep
    THEN <<piece>> \o SplitOnFrom(str, sep, p + 1, "")
    ELSE SplitOnFrom(str, sep, p + 1, piece \o SubSeq(str, p, p))

SplitOn(str, sep) == SplitOnFrom(str, sep, 1, "")

NonEmpty(str) == str # ""

\* the dot segments of a path taken out, ".." together with the segment before
RECURSIVE Resolve(_, _)
Resolve(segments, resolved) ==
    IF Len(segments) = 0 THEN resolved
    ELSE IF segments[1] = ".."
    THEN Resolve(Tail(segments),
                 IF Len(resolved) = 0 THEN resolved ELSE SubSeq(resolved, 1, Len(resolved) - 1))
    ELSE IF segments[1] = "." THEN Resolve(Tail(segments), resolved)
    ELSE Resolve(Tail(segments), Append(resolved, segments[1]))

\* urllib.parse.urljoin(base, ref) for an http(s) base and a ref that is a
\* path: the last segment of the base path is dropped unless it is empty, the
\* empty inner segments are removed and the dot segments resolved
urljoin(base, ref) ==
    LET pieces == SplitOn(base, "/")
        origin == pieces[1] \o "//" \o pieces[3]
        bpath == <<"">> \o SubSeq(pieces, 4, Len(pieces))
        base_parts == IF bpath[Len(bpath)] # "" THEN SubSeq(bpath, 1, Len(bpath) - 1) ELSE bpath
        joined == IF StartsWith(ref, "/") THEN SplitOn(ref, "/") ELSE base_parts \o SplitOn(ref, "/")
        segments == IF Len(joined) < 3 THEN joined
                    ELSE <<joined[1]>> \o SelectSeq(SubSeq(joined, 2, Len(joined) - 1), NonEmpty)
                         \o <<joined[Len(joined)]>>
        resolved == Resolve(segments, <<>>)
        path == Join("/", IF segments[Len(segments)] \in {".", ".."}
                          THEN Append(resolved, "") ELSE resolved)
    IN  origin \o (IF path = "" THEN "/" ELSE path)

---------------------------------------------------------------------------
(* query: the submission and the response resolver *)

\* what a call gives back: a table (its column names and text), the text, or
\* the exception it raised
Table(names, lines) == [kind |-> "table", err |-> "", names |-> names, lines |-> lines]

Text(lines) == [kind |-> "text", err |-> "", names |-> <<>>, lines |-> lines]

Error(exc) == [kind |-> "error", err |-> exc, names |-> <<>>, lines |-> <<>>]

NoReturn == [kind |-> "none", err |-> "", names |-> <<>>, lines |-> <<>>]

\* a resolver that looks at the text of the form first
QueryFailed_form_first(page) ==
    LET text == Join("\n", page.form)
    IN  IF text # ""
        THEN "ValueError: Query failed. Webpage returned:\n" \o text \o "\n"
        ELSE "ValueError: Query failed. No useful information provided."

\* lines 175-189: the error raised when the page has no output anchor
QueryFailed(page) ==
    LET msg == Join("", page.errorwarning)
    IN  IF msg # ""
        THEN "ValueError: Query failed. Error message:\n" \o msg \o "\nPlease check your inputs!"
        ELSE LET text == Join("\n", page.form)
             IN  IF text # ""
                 THEN "ValueError: Query failed. Webpage returned:\n" \o text \o "\n"
                 ELSE "ValueError: Query failed. No useful information provided."

\* lines 170-173: the body is decompressed only when the URL ends in .gz; a
\* body that is not what the suffix announces cannot be decoded
Decode(url, body) ==
    IF EndsWith(url, ".gz")
    THEN IF body.gz THEN [err |-> "", lines |-> body.lines]
         ELSE [err |-> "gzip.BadGzipFile", lines |-> <<>>]
    ELSE IF body.gz THEN [err |-> "UnicodeDecodeError", lines |-> <<>>]
         ELSE [err |-> "", lines |-> body.lines]

\* lines 192-196: header after the loop; it is unbound when no line was
\* assigned to it
RECURSIVE ScanHeader(_, _)
ScanHeader(lines, header) ==
    IF Len(lines) = 0 THEN header
    ELSE IF StartsWith(lines[1], "#")
    THEN ScanHeader(Tail(lines), [bound |-> TRUE, s |-> SubSeq(lines[1], 2, Len(lines[1]))])
    ELSE header

Header(lines) == ScanHeader(lines, [bound |-> FALSE, s |-> ""])

\* lines 197-199
Names(header) ==
    LET names == Split(header)
    IN  IF names[1] = "Z" THEN [names EXCEPT ![1] = "Zini"] ELSE names

\* lines 191-203; ascii.read is the tabular decoder, given the names
Build(ret_table, lines) ==
    IF ret_table
    THEN LET header == Header(lines)
         IN  IF ~header.bound THEN Error("UnboundLocalError: header")
             ELSE IF Split(header.s) = <<>> THEN Error("IndexError: list index out of range")
             ELSE Table(Names(header.s), lines)
    ELSE Text(lines)

\* a merge in which a stored default beats the argument of the call
Merge_defaults_win(default, args) == Update(args, default)

\* line 164: data={**self.args_default, **args}
Merge(default, args) == Update(default, args)

\* the whole of query(ret_table, **args) on one response of the server
Query(site, default, ret_table, args, resp) ==
    LET posted == Merge(default, args)
        hrefs == resp.page.anchors
    IN  IF Len(hrefs) > 0
        THEN LET url == urljoin(site, hrefs[1])
                 output == Decode(url, resp.body)
             IN  [posts |-> <<posted>>, gets |-> <<url>>,
                  ret |-> IF output.err # "" THEN Error(output.err)
                          ELSE Build(ret_table, output.lines)]
        ELSE [posts |-> <<posted>>, gets |-> <<>>, ret |-> Error(QueryFailed(resp.page))]

\* a call that raised before it reached query
Raised(exc) == [posts |-> <<>>, gets |-> <<>>, ret |-> Error(exc)]

---------------------------------------------------------------------------
(* parse_form and _set_args_form_data *)

\* str.strip(chars)
RECURSIVE LStrip(_, _)
LStrip(str, chars) ==
    IF Len(str) > 0 /\ SubSeq(str, 1, 1) \in chars
    THEN LStrip(SubSeq(str, 2, Len(str)), chars) ELSE str

RECURSIVE RStrip(_, _)
RStrip(str, chars) ==
    IF Len(str) > 0 /\ SubSeq(str, Len(str), Len(str)) \in chars
    THEN RStrip(SubSeq(str, 1, Len(str) - 1), chars) ELSE str

Strip(str, chars) == RStrip(LStrip(str, chars), chars)

\* dict(pairs): every element must have exactly two items; a later key wins
RECURSIVE DictOf(_, _)
DictOf(pairs, acc) ==
    IF Len(pairs) = 0 THEN Ok(acc)
    ELSE IF Len(pairs[1]) # 2 THEN Raise("ValueError: dictionary update sequence element")
    ELSE DictOf(Tail(pairs), Update(acc, pairs[1][1] :> Str(pairs[1][2])))

parse_form(form) ==
    LET items == SplitOn(Strip(form, {"\n"}), "\n")
        pairs == [n \in 1..Len(items) |->
                    LET parts == SplitOn(items[n], ":")
                    IN  [m \in 1..Len(parts) |-> Strip(parts[m], Whitespace \cup {"\n", "\r"})]]
    IN  DictOf(pairs, Empty)

---------------------------------------------------------------------------
(* _get_args: the defaults scraped from the form of the website *)

Input(type, name, value, checked) ==
    [tag |-> "input", type |-> type, name |-> name, value |-> value,
     checked |-> checked, children |-> <<>>]

Select(name, children) ==
    [tag |-> "select", type |-> "", name |-> name, value |-> "",
     checked |-> "", children |-> children]

Option(value, selected) == [tag |-> "option", value |-> value, selected |-> selected]

\* lines 388-398: the selected option of a select becomes its default
RECURSIVE SelectArgs(_, _, _)
SelectArgs(children, name, args) ==
    IF Len(children) = 0 THEN args
    ELSE LET c == children[1]
         IN  IF c.tag = "option" /\ c.selected # ""
             THEN SelectArgs(Tail(children), name, Update(args, name :> Str(c.value)))
             ELSE SelectArgs(Tail(children), name, args)

\* lines 400-425: one input control
InputArgs(b, args) ==
    IF b.type = "text" THEN Ok(Update(args, b.name :> Str(b.value)))
    ELSE IF b.type = "hidden"
    THEN IF ~Has(args, b.name) THEN Ok(Update(args, b.name :> Lst(<<b.value>>)))
         ELSE IF args[b.name].k # "list" THEN Raise("AttributeError: append")
         ELSE Ok(Update(args, b.name :> Lst(Append(args[b.name].l, b.value))))
    ELSE IF b.type = "radio"
    THEN IF b.checked # "" THEN Ok(Update(args, b.name :> Str(b.value))) ELSE Ok(args)
    ELSE IF b.type = "checkbox"
    THEN IF b.checked # "" THEN Ok(Update(args, b.name :> Str("1")))
         ELSE Ok(Update(args, b.name :> Str("0")))
    ELSE IF b.type = "submit" THEN Ok(args)
    ELSE Raise("ValueError: Unknown input type: " \o b.type)

RECURSIVE ControlArgs(_, _)
ControlArgs(controls, args) ==
    IF Len(controls) = 0 THEN Ok(args)
    ELSE LET b == controls[1]
         IN  IF b.tag = "select"
             THEN ControlArgs(Tail(controls), SelectArgs(b.children, b.name, args))
             ELSE LET got == InputArgs(b, args)
                  IN  IF got.err # "" THEN got ELSE ControlArgs(Tail(controls), got.f)

\* args_default_website; the submit control is skipped and the trigger field
\* written last (line 427). The catalogue self.opts is built beside it and is
\* read by show_options alone; it is left out.
SubmitForm(args) == Update(args, [submit_form |-> Str("Submit")])

get_args(controls) ==
    LET got == ControlArgs(controls, Empty)
    IN  IF got.err # "" THEN got ELSE Ok(SubmitForm(got.f))

---------------------------------------------------------------------------
(* __init__ *)

\* the characters of a version string, in code point order
Alphabet == ".0123456789_cdm"

Rank(c) == CHOOSE r \in 1..Len(Alphabet) : SubSeq(Alphabet, r, r) = c

\* a >= b for Python strings: the first differing character decides, and a
\* proper prefix is the smaller
RECURSIVE StrGE(_, _)
StrGE(a, b) ==
    IF Len(b) = 0 THEN TRUE
    ELSE IF Len(a) = 0 THEN FALSE
    ELSE IF SubSeq(a, 1, 1) = SubSeq(b, 1, 1)
    THEN StrGE(SubSeq(a, 2, Len(a)), SubSeq(b, 2, Len(b)))
    ELSE Rank(SubSeq(a, 1, 1)) > Rank(SubSeq(b, 1, 1))

\* lines 141-146: the translator bound to query_isochrones
Dispatch(version) ==
    IF version = "cmd" \/ StrGE(version, "cmd_3") THEN "cmd3"
    ELSE IF StrGE(version, "cmd_2") THEN "cmd2"
    ELSE "ValueError: Unknown cmd version!"

---------------------------------------------------------------------------
(* The environment: what the website serves and what callers pass *)

Versions == {"cmd", "cmd_2.8", "cmd_1.0"}

WebsiteRoot == "https://stev.oapd.inaf.it/cgi-bin/"

\* the form of a cmd_3.x page
Form3 ==
    << Input("hidden", "cmd_version", "3.8", ""),
       Select("photsys_file", << Option("tab_mag_ubvrijhk.dat", "selected"),
                                 Option("tab_mag_CSST.dat", "") >>),
       Input("radio", "isoc_isagelog", "0", "checked"),
       Input("radio", "isoc_isagelog", "1", ""),
       Input("text", "isoc_agelow", "1.0e9", ""),
       Input("text", "isoc_lagelow", "6.6", ""),
       Input("text", "isoc_zlow", "0.0152", ""),
       Input("text", "isoc_metlow", "-2", ""),
       Input("text", "extinction_av", "0.0", ""),
       Input("checkbox", "output_gzip", "1", ""),
       Input("submit", "submit_form", "Submit", "") >>

\* the form of a cmd_2.x page, with the track family that is checked
Form2(kind) ==
    << Input("hidden", "cmd_version", "2.8", ""),
       Input("radio", "isoc_kind", "parsec_CAF09_v1.2S", IF kind = "parsec" THEN "checked" ELSE ""),
       Input("radio", "isoc_kind", "gi10a", IF kind = "parsec" THEN "" ELSE "checked"),
       Input("radio", "isoc_val", "0", "checked"),
       Input("text", "isoc_age", "1.0e9", ""),
       Input("text", "isoc_zeta", "0.0152", ""),
       Input("text", "extinction_av", "0.0", ""),
       Input("submit", "submit_form", "Submit", "") >>

\* a page with a control _get_args does not know
FormUnknown == << Input("text", "isoc_age", "1.0e9", ""), Input("file", "upload", "", "") >>

Forms(version) ==
    IF Dispatch(version) = "cmd3" THEN {Form3, FormUnknown}
    ELSE {Form2("parsec"), Form2("girardi"), FormUnknown}

\* captured form data handed to _set_args_form_data
FormData ==
    { "photsys_file: tab_mag_CSST.dat",
      "\nisoc_kind: gi10a\nsubmit_form: Submit\n",
      "isoc_kind:parsec_CAF09_v1.2S \n submit_form : Submit",
      "isoc_kind: gi10a\n\nsubmit_form: Submit",
      "referer: https://stev.oapd.inaf.it/cgi-bin/cmd" }

\* the values of t, lgt, Z and MeH: None, a bare number, or an array of 1 to
\* MaxLen elements (t in powers of ten, lgt and MeH integral)
TVals == {None, Scalar(Num(1000))} \cup {Array([n \in 1..len |-> Num(Pow(10, n))]) : len \in 1..MaxLen}

LgtVals == {None, Scalar(Num(9))} \cup {Array([n \in 1..len |-> Num(n + 5)]) : len \in 1..MaxLen}

ZVals == {None, Scalar(Rat(2, 100))} \cup {Array([n \in 1..len |-> Rat(n, 100)]) : len \in 1..MaxLen}

MeHVals == {None, Scalar(Num(0))} \cup {Array([n \in 1..len |-> Num(n - 2)]) : len \in 1..MaxLen}

AvVals == {Num(0), Rat(1, 2)}

\* raw **args of a caller; t, lgt, Z, MeH, extinction_av and ret_table are
\* named parameters and never land in **args
Overrides ==
    { Empty,
      [isoc_agelow |-> Num(5), isoc_dz |-> Num(7), isoc_val |-> Str("9"),
       photsys_file |-> Str("tab_mag_CSST.dat")],
      [isoc_lagelow |-> Num(5), isoc_zupp |-> Num(7), isoc_metlow |-> Num(3)],
      [isoc_kind |-> Str("gi10a")],
      [isoc_kind |-> Str("parsec_CAF09_v1.2S"), submit_form |-> Str("Go")] }

NoBody == [gz |-> FALSE, lines |-> <<>>]

Response(anchors, errorwarning, form, body) ==
    [page |-> [anchors |-> anchors, errorwarning |-> errorwarning, form |-> form],
     body |-> body]

NoResponse == Response(<<>>, <<>>, <<>>, NoBody)

\* the two typical answers: an output file, and an error page
TypicalResponses ==
    { Response(<<"../tmp/output1.dat">>, <<>>, <<"CMD">>,
               [gz |-> FALSE, lines |-> <<"#Z age", "0.02 1e9">>]),
      Response(<<>>, <<"Error: t not valid. ">>, <<"CMD">>, NoBody) }

SeqsUpTo(S, len) == UNION {[1..m -> S] : m \in 0..len}

ArtifactLines == {"# made by CMD", "#Z age Z", "0.02 1e9 0.02", "#", ""}

Hrefs == {"../tmp/output1.dat", "../tmp/output1.dat.gz"}

\* every answer of the server the resolver distinguishes
Responses ==
    { Response(<<>>, ew, form, NoBody) :
        ew \in SeqsUpTo({"bad input"}, MaxNodes), form \in SeqsUpTo({"CMD", "\n"}, MaxNodes) }
    \cup
    { Response(<<r.href>>, r.ew, <<"CMD">>, [gz |-> r.gz, lines |-> r.lines]) :
        r \in [href : Hrefs, ew : {<<>>, <<"bad input">>}, gz : BOOLEAN,
               lines : SeqsUpTo(ArtifactLines, MaxLines)] }

\* the inputs of one call
Call(op, t, lgt, Z, MeH, av, ret_table, args, resp, form) ==
    [op |-> op, t |-> t, lgt |-> lgt, Z |-> Z, MeH |-> MeH, extinction_av |-> av,
     ret_table |-> ret_table, args |-> args, resp |-> resp, form |-> form]

NoCall == Call("none", None, None, None, None, Num(0), TRUE, Empty, NoResponse, "")

---------------------------------------------------------------------------
(* The instance *)

\* __init__: the instance exists when _get_args and the dispatch both succeed
Constructed(version, form) ==
    /\ get_args(form).err = ""
    /\ Dispatch(version) \in {"cmd3", "cmd2"}
    /\ website = urljoin(WebsiteRoot \o "/", version)
    /\ args_default = get_args(form).f
    /\ query_isochrones = Dispatch(version)

Init ==
    /\ \E version \in Versions : \E form \in Forms(version) : Constructed(version, form)
    /\ inp = NoCall
    /\ pc = "idle"
    /\ posts = <<>>
    /\ gets = <<>>
    /\ ret = NoReturn

Returns(i, out) ==
    /\ inp' = i
    /\ posts' = out.posts
    /\ gets' = out.gets
    /\ ret' = out.ret
    /\ UNCHANGED <<website, query_isochrones, args_default>>

\* query(ret_table, **args)
query(i) ==
    /\ i.op = "query"
    /\ Returns(i, Query(website, args_default, i.ret_table, i.args, i.resp))

\* _query_isochrones_cmd3(t, lgt, Z, MeH, extinction_av, ret_table, **args)
query_isochrones_cmd3(i) ==
    /\ i.op = "cmd3"
    /\ query_isochrones = "cmd3"
    /\ LET got == Cmd3Args(i)
       IN  Returns(i, IF got.err # "" THEN Raised(got.err)
                      ELSE Query(website, args_default, i.ret_table, got.f, i.resp))

\* _query_isochrones_cmd2(t, lgt, Z, MeH, extinction_av, ret_table, **args)
query_isochrones_cmd2(i) ==
    /\ i.op = "cmd2"
    /\ query_isochrones = "cmd2"
    /\ LET got == Cmd2Args(i, args_default)
       IN  Returns(i, IF got.err # "" THEN Raised(got.err)
                      ELSE Query(website, args_default, i.ret_table, got.f, i.resp))

\* _set_args_form_data(form_data)
set_args_form_data(i) ==
    /\ i.op = "set_args"
    /\ LET got == parse_form(i.form)
       IN  /\ args_default' = IF got.err # "" THEN args_default ELSE got.f
           /\ ret' = IF got.err # "" THEN Error(got.err) ELSE NoReturn
    /\ inp' = i
    /\ posts' = <<>>
    /\ gets' = <<>>
    /\ UNCHANGED <<website, query_isochrones>>

---------------------------------------------------------------------------
(* Spec: one instance and any sequence of calls on it *)

\* calls that give exactly one age form and one metallicity form, or leave
\* one pair out
PlainCalls(op) ==
    { Call(op, a[1], a[2], m[1], m[2], Num(0), TRUE, args, resp, "") :
        a \in {<<None, None>>, <<Scalar(Num(1000)), None>>, <<None, Array(<<Num(8), Num(9)>>)>>},
        m \in {<<None, None>>, <<Scalar(Rat(2, 100)), None>>, <<None, Scalar(Num(0))>>,
               <<None, Array(<<Num(-1), Num(0)>>)>>},
        args \in Overrides, resp \in TypicalResponses }

QueryCalls ==
    { Call("query", None, None, None, None, Num(0), rt, args, resp, "") :
        rt \in BOOLEAN, args \in Overrides, resp \in TypicalResponses }

CallQuery == UNCHANGED pc /\ \E i \in QueryCalls : query(i)

CallCmd3 == UNCHANGED pc /\ \E i \in PlainCalls("cmd3") : query_isochrones_cmd3(i)

CallCmd2 == UNCHANGED pc /\ \E i \in PlainCalls("cmd2") : query_isochrones_cmd2(i)

CallSetArgs ==
    /\ UNCHANGED pc
    /\ \E form \in FormData :
          set_args_form_data(Call("set_args", None, None, None, None, Num(0), TRUE, Empty,
                                  NoResponse, form))

Next == CallQuery \/ CallCmd3 \/ CallCmd2 \/ CallSetArgs

Spec == Init /\ [][Next]_vars

---------------------------------------------------------------------------
(* SpecTranslate: the translators applied to every combination of inputs *)

\* the default mappings an instance can hold: the scraped one, or one set by
\* _set_args_form_data
Defaults(form) ==
    {get_args(form).f} \cup {parse_form(fd).f : fd \in {x \in FormData : parse_form(x).err = ""}}

TranslateCalls(op) ==
    { Call(op, r.t, r.lgt, r.Z, r.MeH, r.av, r.rt, r.args, r.resp, "") :
        r \in [t : TVals, lgt : LgtVals, Z : ZVals, MeH : MeHVals, av : AvVals,
               rt : BOOLEAN, args : Overrides, resp : TypicalResponses] }

InitTranslate ==
    /\ \E version \in Versions : \E form \in Forms(version) :
          /\ get_args(form).err = ""
          /\ Dispatch(version) \in {"cmd3", "cmd2"}
          /\ website = urljoin(WebsiteRoot \o "/", version)
          /\ query_isochrones = Dispatch(version)
          /\ args_default \in Defaults(form)
    /\ inp \in TranslateCalls(query_isochrones)
    /\ pc = "ready"
    /\ posts = <<>>
    /\ gets = <<>>
    /\ ret = NoReturn

ApplyCmd3 == pc = "ready" /\ pc' = "done" /\ query_isochrones_cmd3(inp)

ApplyCmd2 == pc = "ready" /\ pc' = "done" /\ query_isochrones_cmd2(inp)

NextTranslate == ApplyCmd3 \/ ApplyCmd2

SpecTranslate == InitTranslate /\ [][NextTranslate]_vars

---------------------------------------------------------------------------
(* SpecResolve: query applied to every answer of the server *)

ResolveCalls ==
    { Call("query", None, None, None, None, Num(0), rt, args, resp, "") :
        rt \in BOOLEAN, args \in {Empty, [photsys_file |-> Str("tab_mag_CSST.dat")]},
        resp \in Responses }

InitResolve ==
    /\ \E version \in Versions : \E form \in Forms(version) : Constructed(version, form)
    /\ inp \in ResolveCalls
    /\ pc = "ready"
    /\ posts = <<>>
    /\ gets = <<>>
    /\ ret = NoReturn

ApplyQuery == pc = "ready" /\ pc' = "done" /\ query(inp)

NextResolve == ApplyQuery

SpecResolve == InitResolve /\ [][NextResolve]_vars

---------------------------------------------------------------------------
(* Properties *)

\* the last call was op and has returned or raised
Called(op) == inp.op = op /\ pc # "ready"

CalledTranslator == Called("cmd3") \/ Called("cmd2")

Posted == posts # <<>>

AgeGiven == ~IsNone(inp.t) \/ ~IsNone(inp.lgt)

MetGiven == ~IsNone(inp.Z) \/ ~IsNone(inp.MeH)

\* the fields either translator computes from t, lgt, Z, MeH, extinction_av
ComputedKeys ==
    {"isoc_isagelog", "isoc_agelow", "isoc_ageupp", "isoc_dage", "isoc_lagelow",
     "isoc_lageupp", "isoc_dlage", "isoc_ismetlog", "isoc_zlow", "isoc_zupp", "isoc_dz",
     "isoc_metlow", "isoc_metupp", "isoc_dmet", "isoc_val", "isoc_age", "isoc_zeta",
     "isoc_age0", "isoc_z0", "isoc_z1", "isoc_zeta0", "isoc_lage0", "isoc_lage1",
     "extinction_av"}

\* the fields the translator computes in the call that was made, by the shapes
\* of what the caller gave
CallKeys ==
    IF inp.op = "cmd3"
    THEN (IF ~IsNone(inp.t)
          THEN {"isoc_isagelog", "isoc_agelow", "isoc_dage"}
               \cup (IF inp.t.shape = "array" THEN {"isoc_ageupp"} ELSE {})
          ELSE {"isoc_isagelog", "isoc_lagelow", "isoc_dlage"}
               \cup (IF inp.lgt.shape = "array" THEN {"isoc_lageupp"} ELSE {}))
         \cup
         (IF ~IsNone(inp.Z)
          THEN {"isoc_ismetlog", "isoc_zlow", "isoc_dz"}
               \cup (IF inp.Z.shape = "array" THEN {"isoc_zupp"} ELSE {})
          ELSE {"isoc_ismetlog", "isoc_metlow", "isoc_dmet"}
               \cup (IF inp.MeH.shape = "array" THEN {"isoc_metupp"} ELSE {}))
         \cup {"extinction_av"}
    ELSE (IF inp.t.shape = "scalar" \/ (IsNone(inp.t) /\ inp.lgt.shape = "scalar")
          THEN (IF (IF ~IsNone(inp.Z) THEN inp.Z.shape ELSE inp.MeH.shape) = "array"
                THEN {"isoc_val", "isoc_age0", "isoc_z0", "isoc_z1", "isoc_dz"}
                ELSE {"isoc_val", "isoc_age", "isoc_zeta"})
          ELSE {"isoc_val", "isoc_zeta0", "isoc_lage0", "isoc_lage1", "isoc_dlage"})
         \cup {"extinction_av"}

\* C1 as claimed: whenever a translator submits, every raw override of the
\* caller reaches query() with the caller's value, also on a key the
\* translator computes.
C1_OverridesWin ==
    (CalledTranslator /\ Posted) =>
        \A key \in DOMAIN inp.args : posts[1][key] = inp.args[key]

\* C1 amended: on a key the translator computes in the call, the submitted
\* value is the computed one (age low bound, metallicity low bound, the
\* log flags, isoc_val, extinction_av), whatever the caller passed under that
\* key; an override on a key the translator does not compute in the call is
\* submitted unchanged.
C1_ComputedWins ==
    (CalledTranslator /\ Posted) =>
        /\ posts[1]["extinction_av"] = inp.extinction_av
        /\ \A key \in (DOMAIN inp.args) \ CallKeys : posts[1][key] = inp.args[key]
        /\ CallKeys \subseteq DOMAIN posts[1]
        /\ Called("cmd3") =>
              /\ ~IsNone(inp.t) =>
                    posts[1]["isoc_isagelog"] = Num(0) /\ posts[1]["isoc_agelow"] = inp.t.v[1]
              /\ (IsNone(inp.t) /\ ~IsNone(inp.lgt)) =>
                    posts[1]["isoc_isagelog"] = Num(1) /\ posts[1]["isoc_lagelow"] = inp.lgt.v[1]
              /\ ~IsNone(inp.Z) =>
                    posts[1]["isoc_ismetlog"] = Num(0) /\ posts[1]["isoc_zlow"] = inp.Z.v[1]
              /\ (IsNone(inp.Z) /\ ~IsNone(inp.MeH)) =>
                    posts[1]["isoc_ismetlog"] = Num(1) /\ posts[1]["isoc_metlow"] = inp.MeH.v[1]
        /\ Called("cmd2") => posts[1]["isoc_val"] \in {Str("0"), Str("1"), Str("2")}

\* a call whose override collides with a computed field, and was submitted
C1_Witness ==
    /\ CalledTranslator /\ Posted
    /\ \E key \in (DOMAIN inp.args) \cap ComputedKeys : posts[1][key] # inp.args[key]

AgeIsArray == IF ~IsNone(inp.t) THEN inp.t.shape = "array" ELSE inp.lgt.shape = "array"

MetIsArray == IF ~IsNone(inp.Z) THEN inp.Z.shape = "array" ELSE inp.MeH.shape = "array"

PostedKeys(keys) == Posted /\ keys \subseteq DOMAIN posts[1]

\* C3: the schema-2 translator, given an age and a metallicity, ends in exactly
\* one of four outcomes decided by the shapes: scalar/scalar submits isoc_val
\* "0", scalar age with array metallicity "2", array age with scalar
\* metallicity "1", and array/array raises the conflict error and submits
\* nothing.
C3_FourOutcomes ==
    (Called("cmd2") /\ AgeGiven /\ MetGiven) =>
        /\ (~AgeIsArray /\ ~MetIsArray) =>
              /\ PostedKeys({"isoc_age", "isoc_zeta"})
              /\ posts[1]["isoc_val"] = Str("0")
        /\ (~AgeIsArray /\ MetIsArray) =>
              /\ PostedKeys({"isoc_age0", "isoc_z0", "isoc_z1", "isoc_dz"})
              /\ posts[1]["isoc_val"] = Str("2")
        /\ (AgeIsArray /\ ~MetIsArray) =>
              /\ PostedKeys({"isoc_zeta0", "isoc_lage0", "isoc_lage1", "isoc_dlage"})
              /\ posts[1]["isoc_val"] = Str("1")
        /\ (AgeIsArray /\ MetIsArray) => ret = Error(Conflict) /\ posts = <<>>

\* C4: the stored defaults of an instance always hold submit_form, and so does
\* every mapping it posts.
C4_SubmitFormAlways ==
    /\ Has(args_default, "submit_form")
    /\ Posted => Has(posts[1], "submit_form")

IsQueryCall(op) == op \in {"query", "cmd3", "cmd2"}

\* C5: a query or query_isochrones call, whether it returns or raises, leaves
\* args_default as it was; what it posts holds every key of args_default and
\* of the call, a key the call does not give keeps the stored default, a raw
\* argument of the call beats the stored default, and extinction_av of a
\* query_isochrones call beats the default of the form.
C5_DefaultsReadOnly ==
    [][IsQueryCall(inp'.op) =>
          /\ args_default' = args_default
          /\ posts' # <<>> =>
               LET sent == posts'[1]
                   given == (DOMAIN inp'.args) \cup
                            (IF inp'.op = "query" THEN {} ELSE ComputedKeys)
               IN  /\ (DOMAIN args_default) \cup (DOMAIN inp'.args) \subseteq DOMAIN sent
                   /\ \A key \in (DOMAIN sent) \ given :
                         key \in DOMAIN args_default /\ sent[key] = args_default[key]
                   /\ \A key \in (DOMAIN inp'.args) \ ComputedKeys :
                         sent[key] = inp'.args[key]
                   /\ inp'.op = "query" =>
                         \A key \in DOMAIN inp'.args : sent[key] = inp'.args[key]
                   /\ inp'.op # "query" => sent["extinction_av"] = inp'.extinction_av
      ]_vars

\* a posted call whose argument collides with a stored default of another value
C5_Witness ==
    /\ Called("query") /\ Posted
    /\ \E key \in (DOMAIN inp.args) \cap (DOMAIN args_default) :
          inp.args[key] # args_default[key] /\ posts[1][key] = inp.args[key]

NoAnchor == inp.resp.page.anchors = <<>>

\* C6: when the page has no output anchor, query raises, fetches nothing and
\* returns no table and no text; the message carries the errorwarning text and
\* the check-your-inputs hint when there is such text, else the text of the
\* form when there is any, else it is the no-useful-information message.
C6_ErrorPriority ==
    (Called("query") /\ NoAnchor) =>
        LET ew == inp.resp.page.errorwarning
            form == inp.resp.page.form
        IN  /\ ret.kind = "error" /\ ret.names = <<>> /\ ret.lines = <<>>
            /\ gets = <<>>
            /\ ew # <<>> =>
                  /\ \A n \in 1..Len(ew) : Contains(ret.err, ew[n])
                  /\ Contains(ret.err, "Please check your inputs!")
            /\ (ew = <<>> /\ form # <<>>) =>
                  /\ \A n \in 1..Len(form) : Contains(ret.err, form[n])
                  /\ Contains(ret.err, "Webpage returned")
                  /\ ~Contains(ret.err, "Please check your inputs!")
            /\ (ew = <<>> /\ form = <<>>) =>
                  ret.err = "ValueError: Query failed. No useful information provided."

C6_Witness ==
    /\ Called("query") /\ NoAnchor /\ ~inp.ret_table
    /\ inp.resp.page.errorwarning # <<>> /\ inp.resp.page.form # <<>>
    /\ Contains(ret.err, "bad input")

OneAge == IsNone(inp.t) # IsNone(inp.lgt)

OneMet == IsNone(inp.Z) # IsNone(inp.MeH)

LinearAgeKeys == {"isoc_agelow", "isoc_ageupp", "isoc_dage"}

LogAgeKeys == {"isoc_lagelow", "isoc_lageupp", "isoc_dlage"}

ZKeys == {"isoc_zlow", "isoc_zupp", "isoc_dz"}

MeHKeys == {"isoc_metlow", "isoc_metupp", "isoc_dmet"}

\* the translator wrote nothing under key: it is posted as the caller gave
\* it, else as the stored default holds it, else not at all
Untouched(key) ==
    IF key \in DOMAIN inp.args THEN posts[1][key] = inp.args[key]
    ELSE IF key \in DOMAIN args_default THEN posts[1][key] = args_default[key]
    ELSE key \notin DOMAIN posts[1]

IsLen1(x) == x.shape = "array" /\ Len(x.v) = 1

\* C8: in the schema-3 translator a sequence of length 1 counts as the scalar
\* x[0]: the step posted for it is 0, as for the bare number.
C8_Len1IsScalar ==
    (Called("cmd3") /\ Posted) =>
        /\ IsLen1(inp.t) =>
              posts[1]["isoc_agelow"] = inp.t.v[1] /\ posts[1]["isoc_dage"] = Num(0)
        /\ (IsNone(inp.t) /\ IsLen1(inp.lgt)) =>
              posts[1]["isoc_lagelow"] = inp.lgt.v[1] /\ posts[1]["isoc_dlage"] = Num(0)
        /\ IsLen1(inp.Z) =>
              posts[1]["isoc_zlow"] = inp.Z.v[1] /\ posts[1]["isoc_dz"] = Num(0)
        /\ (IsNone(inp.Z) /\ IsLen1(inp.MeH)) =>
              posts[1]["isoc_metlow"] = inp.MeH.v[1] /\ posts[1]["isoc_dmet"] = Num(0)

\* C9: in the schema-2 translator with MeH and no Z, a caller who passes
\* isoc_kind gets the solar reference of that family whatever the stored
\* defaults hold: a scalar age and MeH post isoc_zeta = Zsun * 10**MeH with
\* Zsun 0.0152 for a parsec family and 0.019 otherwise.
C9_KindOfCall ==
    (/\ Called("cmd2") /\ IsNone(inp.Z) /\ inp.MeH.shape = "scalar"
     /\ ~IsNone(inp.t) /\ inp.t.shape = "scalar"
     /\ Has(inp.args, "isoc_kind")) =>
        /\ Posted
        /\ posts[1]["isoc_zeta"] =
              Mul(IF StartsWith(inp.args["isoc_kind"].s, "parsec")
                  THEN Rat(152, 10000) ELSE Rat(19, 1000),
                  Pow10(inp.MeH.v[1]))

Fetched == Posted /\ gets # <<>> /\ EndsWith(gets[1], ".gz") = inp.resp.body.gz

\* C10: with ret_table=True and a fetched artifact, query returns a table
\* whatever the text is, the first line not starting with '#' included; its
\* column names are the words of the last line of the leading run of '#'
\* lines, later '#' lines change nothing, and only a first column "Z" is
\* renamed, to "Zini".
C10_NamesDefined ==
    (Called("query") /\ inp.ret_table /\ Fetched) =>
        LET lines == inp.resp.body.lines
            run == {r \in 1..Len(lines) : \A j \in 1..r : StartsWith(lines[j], "#")}
        IN  /\ ret.kind = "table"
            /\ Len(ret.names) > 0
            /\ \A r \in run : (r + 1) \notin run =>
                  LET words == Split(SubSeq(lines[r], 2, Len(lines[r])))
                  IN  /\ Len(ret.names) = Len(words)
                      /\ ret.names[1] = (IF words[1] = "Z" THEN "Zini" ELSE words[1])
                      /\ \A c \in 2..Len(words) : ret.names[c] = words[c]

====
